---- MODULE Spec2Model ----
(***************************************************************************)
(* Book Review API (expressBookReviews): the in-memory user store, the     *)
(* book store with per-user reviews, the session/JWT gate in front of      *)
(* /customer/auth/*, and the request handlers, as a state machine.         *)
(*                                                                         *)
(* JavaScript strings are modelled as sequences of one-character strings,  *)
(* so that length checks, trim() and the username regular expression are   *)
(* computed and not assumed.  A missing body field (undefined) and the     *)
(* empty string are both falsy in the handlers' tests and are both the     *)
(* empty sequence here.  Time is Date.now() in milliseconds.               *)
(***************************************************************************)
EXTENDS Integers, Sequences, FiniteSets, TLC

VARIABLES users, books, session, now, ticks, timers, resp, crashed

vars == <<users, books, session, now, ticks, timers, resp, crashed>>

(***************************************************************************)
(* Bounds of the model                                                     *)
(***************************************************************************)
MaxUsers == 2
MaxTicks == 2

(***************************************************************************)
(* Strings used as request inputs                                          *)
(***************************************************************************)
alice == <<"a", "l", "i", "c", "e">>
aliceUpper == <<"A", "l", "i", "c", "e">>
bob == <<"b", "o", "b">>
proto == <<"_", "_", "p", "r", "o", "t", "o", "_", "_">>
ctor == <<"c", "o", "n", "s", "t", "r", "u", "c", "t", "o", "r">>
shortName == <<"a", "b">>
secret == <<"s", "e", "c", "r", "e", "t">>
hunter2 == <<"h", "u", "n", "t", "e", "r", "2">>
shortPw == <<"s", "h", "o", "r", "t">>
good == <<"G", "o", "o", "d">>
padded == <<" ", "o", "k", " ">>
blank == <<" ">>
tooLong == [k \in 1..(1000 + 1) |-> "x"]
isbn1 == <<"1">>
isbn999 == <<"9", "9", "9">>

Clients == {"c1", "c2"}
NoClient == "none"
UsernameInputs == {alice, aliceUpper, shortName, <<>>}
\* Registration bodies <<username, password>>: accepted ones, a second
\* password for a name, a name differing in case, and each kind of bad field.
RegisterInputs ==
    {<<alice, secret>>, <<alice, hunter2>>, <<alice, shortPw>>,
     <<alice, <<>>>>, <<aliceUpper, hunter2>>, <<shortName, secret>>,
     <<<<>>, secret>>}
\* Login bodies: good and bad credentials, a missing field, a bad shape.
LoginInputs ==
    {<<alice, secret>>, <<alice, hunter2>>, <<aliceUpper, secret>>,
     <<aliceUpper, hunter2>>, <<alice, <<>>>>, <<<<>>, secret>>,
     <<shortName, secret>>}
\* Search terms: lower case, mixed case, padded, matching several books,
\* matching none, blank.
achebe == <<"a", "c", "h", "e", "b", "e">>
achebeMixed == <<"A", "c", "H", "e", "B", "E">>
achebePadded == <<"a", "c", "h", "e", "b", "e", " ">>
theTerm == <<"t", "h", "e">>
unknownTerm == <<"U", "N", "K", "N", "O", "W", "N">>
noMatch == <<"z", "z", "z">>
SearchInputs ==
    {achebe, achebeMixed, achebePadded, theTerm, unknownTerm, noMatch, blank}

\* A JSON number of a request body, held apart from the strings (sequences
\* of characters, indexed from 1).
JsonNumber(n) == [k \in {0} |-> n]

IsString(v) == 0 \notin DOMAIN v

\* !v for a string or a number
Falsy(v) == v = <<>> \/ v = JsonNumber(0)

\* Registration bodies at the edges of the two rules, and a password sent as
\* a JSON number.
name30 == [k \in 1..30 |-> "n"]
name31 == [k \in 1..(30 + 1) |-> "n"]
badChar == <<"a", "l", "!", "c", "e">>
pw100 == [k \in 1..100 |-> "p"]
pw101 == [k \in 1..(100 + 1) |-> "p"]
pwNumber == JsonNumber(1)
EdgeUsernames == {shortName, bob, name30, name31, badChar, <<>>}
EdgePasswords == {shortPw, secret, pw100, pw101, pwNumber, <<>>}

PasswordInputs == {secret, hunter2, shortPw, <<>>}
ReviewInputs == {good, padded, blank, <<>>, tooLong}
IsbnInputs == {isbn1, isbn999, ctor}
\* Clock jumps in ms: within a second, just short of the token lifetime, and
\* the cookie lifetime.
Jumps == {500, 3599500, 86400000}

(***************************************************************************)
(* Program constants                                                       *)
(***************************************************************************)
JWT_SECRET == "access"
TokenLifetime == 60 * 60
SessionMaxAge == 24 * 60 * 60 * 1000
MaxReviewLen == 1000
UsernameMinLen == 3
UsernameMaxLen == 30
PasswordMinLen == 6
PasswordMaxLen == 100
Unknown == -1

(***************************************************************************)
(* JavaScript object semantics used by the stores                          *)
(***************************************************************************)
\* Property names every plain object inherits from Object.prototype: a lookup
\* obj[k] with no own property k finds the inherited (truthy) value.
ProtoKeys ==
    {proto, ctor,
     <<"t", "o", "S", "t", "r", "i", "n", "g">>,
     <<"v", "a", "l", "u", "e", "O", "f">>}

EmptyMap == [k \in {} |-> <<>>]

\* Boolean(obj[k]) for a map of non-empty strings held as own properties.
Truthy(map, k) ==
    IF k \in DOMAIN map THEN map[k] # <<>> ELSE k \in ProtoKeys

\* A write that adds the new text to the end of the old one.
SetProp_Concat(map, k, v) ==
    [x \in (DOMAIN map) \cup {k} |->
        IF x = k THEN (IF k \in DOMAIN map THEN map[k] \o v ELSE v)
        ELSE map[x]]

\* obj[k] = v for a string v: assigning a primitive to __proto__ is ignored.
SetProp(map, k, v) ==
    IF k = proto
    THEN map
    ELSE [x \in (DOMAIN map) \cup {k} |-> IF x = k THEN v ELSE map[x]]

\* A delete that empties the whole object.
DeleteProp_All(map, k) == EmptyMap

\* delete obj[k]: removes an own property, does nothing otherwise.
DeleteProp(map, k) == [x \in (DOMAIN map) \ {k} |-> map[x]]

\* String.prototype.trim for the blank character used in the inputs.
RECURSIVE TrimLeft(_)
TrimLeft(s) == IF s # <<>> /\ Head(s) = " " THEN TrimLeft(Tail(s)) ELSE s

RECURSIVE TrimRight(_)
TrimRight(s) ==
    IF s # <<>> /\ s[Len(s)] = " " THEN TrimRight(SubSeq(s, 1, Len(s) - 1)) ELSE s

Trim(s) == TrimRight(TrimLeft(s))

\* Math.floor(Date.now() / 1000)
Sec(ms) == ms \div 1000

(***************************************************************************)
(* booksdb: the seeded catalog                                             *)
(***************************************************************************)
SeededIsbns ==
    {<<"1">>, <<"2">>, <<"3">>, <<"4">>, <<"5">>, <<"6">>, <<"7">>, <<"8">>,
     <<"9">>, <<"1", "0">>}

Book(author, title, genre, year, rating10) ==
    [author |-> author, title |-> title, reviews |-> EmptyMap,
     genre |-> genre, year |-> year, rating10 |-> rating10]

\* rating10 is the rating in tenths (4.5 is 45).
SeedBooks ==
    [i \in SeededIsbns |->
        CASE i = <<"1">> -> Book("Chinua Achebe", "Things Fall Apart",
                                 <<"Fiction", "Historical">>, 1958, 45)
          [] i = <<"2">> -> Book("Hans Christian Andersen", "Fairy tales",
                                 <<"Fantasy", "Children">>, 1837, 43)
          [] i = <<"3">> -> Book("Dante Alighieri", "The Divine Comedy",
                                 <<"Epic Poetry", "Classic">>, 1320, 47)
          [] i = <<"4">> -> Book("Unknown", "The Epic Of Gilgamesh",
                                 <<"Epic Poetry", "Ancient">>, -2100, 42)
          [] i = <<"5">> -> Book("Unknown", "The Book Of Job",
                                 <<"Religious", "Philosophy">>, -600, 44)
          [] i = <<"6">> -> Book("Unknown", "One Thousand and One Nights",
                                 <<"Folklore", "Fantasy">>, 800, 46)
          [] i = <<"7">> -> Book("Unknown", "Njál's Saga",
                                 <<"Saga", "Historical">>, 1280, 41)
          [] i = <<"8">> -> Book("Jane Austen", "Pride and Prejudice",
                                 <<"Romance", "Classic">>, 1813, 48)
          [] i = <<"9">> -> Book("Honoré de Balzac", "Le Père Goriot",
                                 <<"Realism", "Fiction">>, 1835, 40)
          [] OTHER -> Book("Samuel Beckett",
                           "Molloy, Malone Dies, The Unnamable, the trilogy",
                           <<"Modernist", "Philosophical">>, 1951, 42)]

\* Boolean(books[isbn]): a seeded key, or a name inherited from Object.prototype.
BookTruthy(isbn) == isbn \in DOMAIN books \/ isbn \in ProtoKeys

\* books[isbn].reviews is an object only for a seeded key; for an inherited
\* value (a function or Object.prototype) it is undefined.
HasReviews(isbn) == isbn \in DOMAIN books

(***************************************************************************)
(* auth_users: validators and the authenticator                            *)
(***************************************************************************)
UsernameChars ==
    {"a", "b", "c", "d", "e", "f", "g", "h", "i", "j", "k", "l", "m", "n", "o",
     "p", "q", "r", "s", "t", "u", "v", "w", "x", "y", "z",
     "A", "B", "C", "D", "E", "F", "G", "H", "I", "J", "K", "L", "M", "N", "O",
     "P", "Q", "R", "S", "T", "U", "V", "W", "X", "Y", "Z",
     "0", "1", "2", "3", "4", "5", "6", "7", "8", "9", "_"}

isValidUsername(username) ==
    /\ Len(username) >= UsernameMinLen
    /\ Len(username) <= UsernameMaxLen
    /\ \A k \in 1..Len(username) : username[k] \in UsernameChars

\* password.length is undefined for a value that is not a string, and both
\* comparisons with undefined are false.
validatePassword(password) ==
    IF IsString(password)
    THEN ~(Len(password) < PasswordMinLen) /\ ~(Len(password) > PasswordMaxLen)
    ELSE TRUE

\* An authenticator that looks at the username only.
authenticateUser_UsernameOnly(username, password) ==
    \E k \in 1..Len(users) : users[k].username = username

\* An authenticator that accepts everyone.
authenticateUser_Any(username, password) == TRUE

authenticateUser(username, password) ==
    \E k \in 1..Len(users) :
        users[k].username = username /\ users[k].password = password

\* users.includes(username): a record is never equal to a string.
userExists_Includes(username) == FALSE

\* authUtils.users.some(user => user.username === username)
userExists(username) == \E k \in 1..Len(users) : users[k].username = username

(***************************************************************************)
(* Responses and sessions                                                  *)
(***************************************************************************)
Response(route, status, error) ==
    [route |-> route, status |-> status, error |-> error,
     action |-> "", data |-> EmptyMap, registeredAt |-> Unknown]

NoResponse == Response("", 0, "")

NoSession == [present |-> FALSE]

\* The session the request sees: the entry of a cookie that has not expired.
LoadSession(c) ==
    IF session[c].present /\ now < session[c].cookieExpires
    THEN session[c]
    ELSE NoSession

\* A token that lives as long as the session cookie.
SignToken_SessionLifetime(username, secretKey) ==
    [username |-> username, iat |-> Sec(now),
     exp |-> Sec(now) + Sec(SessionMaxAge), secret |-> secretKey]

\* A token that names nobody.
SignToken_Anonymous(username, secretKey) ==
    [username |-> <<>>, iat |-> Sec(now), exp |-> Sec(now) + TokenLifetime,
     secret |-> secretKey]

\* jwt.sign(tokenPayload, secret, HS256)
SignToken(username, secretKey) ==
    [username |-> username, iat |-> Sec(now), exp |-> Sec(now) + TokenLifetime,
     secret |-> secretKey]

\* jwt.verify(token, secret): the signature first, then the expiry.
VerifyToken(token, secretKey) ==
    IF token.secret # secretKey THEN "JsonWebTokenError"
    ELSE IF Sec(now) >= token.exp THEN "TokenExpiredError"
    ELSE "ok"

\* A gate that answers 401 whenever it refuses.
GateStatus_Always401(sess) ==
    IF sess.present
    THEN IF VerifyToken(sess.authorization.accessToken, JWT_SECRET) # "ok"
         THEN 401 ELSE 0
    ELSE 401

\* authMiddleware: the status the gate answers with, 0 when it calls next().
GateStatus(sess) ==
    IF sess.present
    THEN IF VerifyToken(sess.authorization.accessToken, JWT_SECRET) # "ok"
         THEN 403 ELSE 0
    ELSE 401

GateError(sess) ==
    IF sess.present
    THEN IF VerifyToken(sess.authorization.accessToken, JWT_SECRET)
              = "TokenExpiredError"
         THEN "Token expired" ELSE "Invalid token"
    ELSE "No active session"

(***************************************************************************)
(* Initial state: empty user store, seeded catalog, no sessions.           *)
(***************************************************************************)
Init ==
    /\ users = <<>>
    /\ books = SeedBooks
    /\ session = [c \in Clients |-> NoSession]
    /\ now = 0
    /\ ticks = 0
    /\ timers = <<>>
    /\ resp = NoResponse
    /\ crashed = FALSE

\* The clock advances between requests.
Tick(d) ==
    /\ ~crashed
    /\ ticks < MaxTicks
    /\ now' = now + d
    /\ ticks' = ticks + 1
    /\ UNCHANGED <<users, books, session, timers, resp, crashed>>

\* POST /register
Register(username, password) ==
    /\ ~crashed
    /\ IF Falsy(username) \/ Falsy(password)
       THEN /\ resp' = Response("POST /register", 400, "MISSING")
            /\ users' = users
       ELSE IF ~isValidUsername(username)
       THEN /\ resp' = Response("POST /register", 400, "USERNAME")
            /\ users' = users
       ELSE IF ~validatePassword(password)
       THEN /\ resp' = Response("POST /register", 400, "PASSWORD")
            /\ users' = users
       ELSE IF userExists(username)
       THEN /\ resp' = Response("POST /register", 409,
                                "USERNAME_EXISTS")
            /\ users' = users
       ELSE /\ Len(users) < MaxUsers
            /\ users' = Append(users, [username |-> username,
                                       password |-> password,
                                       registeredAt |-> now])
            /\ resp' = Response("POST /register", 201, "")
    /\ UNCHANGED <<books, session, now, ticks, timers, crashed>>

\* POST /customer/login
Login(c, username, password) ==
    /\ ~crashed
    /\ IF Falsy(username) \/ Falsy(password)
       THEN /\ resp' = Response("POST /customer/login", 400, "MISSING")
            /\ session' = session
       ELSE IF ~isValidUsername(username)
       THEN /\ resp' = Response("POST /customer/login", 400, "USERNAME")
            /\ session' = session
       ELSE IF ~authenticateUser(username, password)
       THEN /\ resp' = Response("POST /customer/login", 401, "AUTH_FAILED")
            /\ session' = session
       ELSE /\ session' = [session EXCEPT ![c] =
                    [present |-> TRUE,
                     authorization |->
                        [accessToken |-> SignToken(username, JWT_SECRET),
                         username |-> username,
                         loggedInAt |-> now],
                     cookieExpires |-> now + SessionMaxAge]]
            /\ resp' = Response("POST /customer/login", 200, "")
    /\ UNCHANGED <<users, books, now, ticks, timers, crashed>>

\* The store drops a session whose cookie lifetime (24h) has passed.
ExpireSession(c) ==
    /\ ~crashed
    /\ session[c].present
    /\ now >= session[c].cookieExpires
    /\ session' = [session EXCEPT ![c] = NoSession]
    /\ UNCHANGED <<users, books, now, ticks, timers, resp, crashed>>

(***************************************************************************)
(* Error messages of the store, and String.prototype.includes             *)
(***************************************************************************)
BookWithIsbn ==
    <<"B", "o", "o", "k", " ", "w", "i", "t", "h", " ", "I", "S", "B", "N",
      " ">>

NotFoundSuffix ==
    <<" ", "n", "o", "t", " ", "f", "o", "u", "n", "d">>

NoReviewPrefix ==
    <<"N", "o", " ", "r", "e", "v", "i", "e", "w", " ", "f", "o", "u", "n",
      "d", " ", "f", "o", "r", " ", "u", "s", "e", "r", " ">>

NotFoundText ==
    <<"n", "o", "t", " ", "f", "o", "u", "n", "d">>

NoReviewText ==
    <<"N", "o", " ", "r", "e", "v", "i", "e", "w">>

BookNotFoundMessage(isbn) == BookWithIsbn \o isbn \o NotFoundSuffix

NoReviewMessage(username) == NoReviewPrefix \o username

Includes(s, sub) ==
    \E k \in 0..(Len(s) - Len(sub)) : SubSeq(s, k + 1, k + Len(sub)) = sub

(***************************************************************************)
(* Gated routes of the customer router                                     *)
(***************************************************************************)
StoreCall(op, c, isbn, username, review) ==
    [op |-> op, client |-> c, isbn |-> isbn, username |-> username,
     review |-> review]

\* A client has a store request in flight: it sends its next store request
\* after the response to this one.  Requests of different clients overlap.
Busy(c) == \E k \in 1..Len(timers) : timers[k].client = c

\* PUT /customer/auth/review/:isbn, up to the call of booksdb.addReview
PutReview(c, isbn, review) ==
    /\ ~crashed
    /\ LET sess == LoadSession(c) IN
       IF GateStatus(sess) # 0
       THEN /\ resp' = Response("PUT review", GateStatus(sess),
                                GateError(sess))
            /\ timers' = timers
       ELSE IF review = <<>> \/ Len(Trim(review)) = 0
       THEN /\ resp' = Response("PUT review", 400,
                                "REVIEW_CONTENT_REQUIRED")
            /\ timers' = timers
       ELSE IF Len(review) > MaxReviewLen
       THEN /\ resp' = Response("PUT review", 400, "REVIEW_TOO_LONG")
            /\ timers' = timers
       ELSE /\ ~Busy(c)
            /\ timers' = Append(timers,
                    StoreCall("addReview", c, isbn,
                              sess.authorization.username, Trim(review)))
            /\ resp' = resp
    /\ UNCHANGED <<users, books, session, now, ticks, crashed>>

\* DELETE /customer/auth/review/:isbn, up to the call of booksdb.deleteReview
DeleteReview(c, isbn) ==
    /\ ~crashed
    /\ LET sess == LoadSession(c) IN
       IF GateStatus(sess) # 0
       THEN /\ resp' = Response("DELETE review", GateStatus(sess),
                                GateError(sess))
            /\ timers' = timers
       ELSE /\ ~Busy(c)
            /\ timers' = Append(timers,
                    StoreCall("deleteReview", c, isbn,
                              sess.authorization.username, <<>>))
            /\ resp' = resp
    /\ UNCHANGED <<users, books, session, now, ticks, crashed>>

\* users.find(u => u.username === username)?.registeredAt || "Unknown"
RegisteredAtOf(username) ==
    IF userExists(username)
    THEN LET k == CHOOSE j \in 1..Len(users) :
                    /\ users[j].username = username
                    /\ \A m \in 1..(j - 1) : users[m].username # username
         IN users[k].registeredAt
    ELSE Unknown

\* GET /customer/auth/profile
Profile(c) ==
    /\ ~crashed
    /\ LET sess == LoadSession(c) IN
       IF GateStatus(sess) # 0
       THEN resp' = Response("GET profile", GateStatus(sess),
                             GateError(sess))
       ELSE resp' = [Response("GET profile", 200, "") EXCEPT
                        !.registeredAt =
                            RegisteredAtOf(sess.authorization.username)]
    /\ UNCHANGED <<users, books, session, now, ticks, timers, crashed>>

\* GET /review/:isbn, up to the call of booksdb.getReviews
GetReviews(isbn) ==
    /\ ~crashed
    /\ IF isbn = <<>> \/ Trim(isbn) = <<>>
       THEN /\ resp' = Response("GET review", 400, "MISSING_ISBN")
            /\ timers' = timers
       ELSE /\ ~Busy(NoClient)
            /\ timers' = Append(timers,
                    StoreCall("getReviews", NoClient, isbn, <<>>, <<>>))
            /\ resp' = resp
    /\ UNCHANGED <<users, books, session, now, ticks, crashed>>

\* GET /isbn/:isbn, up to the call of booksdb.getBookByISBN
GetBook(isbn) ==
    /\ ~crashed
    /\ IF isbn = <<>> \/ Trim(isbn) = <<>>
       THEN /\ resp' = Response("GET isbn", 400, "MISSING_ISBN")
            /\ timers' = timers
       ELSE /\ ~Busy(NoClient)
            /\ timers' = Append(timers,
                    StoreCall("getBookByISBN", NoClient, isbn, <<>>, <<>>))
            /\ resp' = resp
    /\ UNCHANGED <<users, books, session, now, ticks, crashed>>

(***************************************************************************)
(* The deferred (setTimeout, 50 ms) store callbacks.  Timers of one delay   *)
(* fire in the order they were set; a callback and the continuation of the *)
(* handler awaiting it run without another request in between.  An error   *)
(* thrown inside a timer callback is outside the promise and outside every *)
(* try/catch of the handler: it ends the process.                          *)
(***************************************************************************)
\* A write that also resets the rating of the book.
addReview_Rated(bks, isbn, username, review) ==
    [bks EXCEPT ![isbn].reviews = SetProp(@, username, review),
                ![isbn].rating10 = 0]

\* A write into the reviews map as it was when the process started.
addReview_Stale(bks, isbn, username, review) ==
    [bks EXCEPT ![isbn].reviews =
        SetProp(SeedBooks[isbn].reviews, username, review)]

\* books[isbn].reviews[username] = review, for a book that has a reviews object
addReview(bks, isbn, username, review) ==
    [bks EXCEPT ![isbn].reviews = SetProp(@, username, review)]

\* delete books[isbn].reviews[username], for a book that has a reviews object
deleteReview(bks, isbn, username) ==
    [bks EXCEPT ![isbn].reviews = DeleteProp(@, username)]

\* updatedBook.reviews[username] === review.trim()
ReviewEquals(map, username, review) ==
    username \in DOMAIN map /\ map[username] = review

\* booksdb.addReview callback, then the rest of the PUT handler
FireAddReview ==
    /\ ~crashed
    /\ timers # <<>>
    /\ Head(timers).op = "addReview"
    /\ timers' = Tail(timers)
    /\ LET t == Head(timers) IN
       IF ~BookTruthy(t.isbn)
       THEN /\ resp' = Response("PUT review", 404, "BOOK_NOT_FOUND")
            /\ UNCHANGED <<books, crashed>>
       ELSE IF ~HasReviews(t.isbn)
       THEN /\ crashed' = TRUE
            /\ UNCHANGED <<books, resp>>
       ELSE /\ books' = addReview(books, t.isbn, t.username, t.review)
            /\ resp' = [Response("PUT review", 200, "") EXCEPT
                          !.action =
                             IF ReviewEquals(books'[t.isbn].reviews,
                                             t.username, t.review)
                             THEN "added" ELSE "updated"]
            /\ crashed' = crashed
    /\ UNCHANGED <<users, session, now, ticks>>

\* const statusCode = dbError.message.includes("not found") ? 404 : 400
DeleteErrorStatus(message) == IF Includes(message, NotFoundText) THEN 404 ELSE 400

DeleteErrorCode(message) ==
    IF Includes(message, NoReviewText) THEN "REVIEW_NOT_FOUND"
    ELSE "BOOK_NOT_FOUND"

\* booksdb.deleteReview callback, then the rest of the DELETE handler
FireDeleteReview ==
    /\ ~crashed
    /\ timers # <<>>
    /\ Head(timers).op = "deleteReview"
    /\ timers' = Tail(timers)
    /\ LET t == Head(timers) IN
       IF ~BookTruthy(t.isbn)
       THEN /\ resp' = Response("DELETE review",
                           DeleteErrorStatus(BookNotFoundMessage(t.isbn)),
                           DeleteErrorCode(BookNotFoundMessage(t.isbn)))
            /\ UNCHANGED <<books, crashed>>
       ELSE IF ~HasReviews(t.isbn)
       THEN /\ crashed' = TRUE
            /\ UNCHANGED <<books, resp>>
       ELSE IF ~Truthy(books[t.isbn].reviews, t.username)
       THEN /\ resp' = Response("DELETE review",
                           DeleteErrorStatus(NoReviewMessage(t.username)),
                           DeleteErrorCode(NoReviewMessage(t.username)))
            /\ UNCHANGED <<books, crashed>>
       ELSE /\ books' = deleteReview(books, t.isbn, t.username)
            /\ resp' = Response("DELETE review", 200, "")
            /\ crashed' = crashed
    /\ UNCHANGED <<users, session, now, ticks>>

\* booksdb.getReviews callback, then the .then/.catch of GET /review/:isbn
FireGetReviews ==
    /\ ~crashed
    /\ timers # <<>>
    /\ Head(timers).op = "getReviews"
    /\ timers' = Tail(timers)
    /\ LET t == Head(timers) IN
       IF ~BookTruthy(t.isbn)
       THEN resp' = Response("GET review", 404, "BOOK_NOT_FOUND")
       ELSE IF ~HasReviews(t.isbn)
       THEN resp' = Response("GET review", 404, "BOOK_NOT_FOUND")
       ELSE resp' = [Response("GET review", 200, "") EXCEPT
                        !.data = books[t.isbn].reviews]
    /\ UNCHANGED <<users, books, session, now, ticks, crashed>>

\* The JSON body made of books[isbn] when it is truthy: the book for a seeded
\* key; for an inherited value, a function is left out of the body and
\* Object.prototype is written as {}.
BookJson(isbn) == IF isbn \in DOMAIN books THEN books[isbn] ELSE EmptyMap

\* booksdb.getBookByISBN callback, then the .then/.catch of GET /isbn/:isbn
FireGetBookByISBN ==
    /\ ~crashed
    /\ timers # <<>>
    /\ Head(timers).op = "getBookByISBN"
    /\ timers' = Tail(timers)
    /\ LET t == Head(timers) IN
       IF BookTruthy(t.isbn)
       THEN resp' = [Response("GET isbn", 200, "") EXCEPT
                        !.data = BookJson(t.isbn)]
       ELSE resp' = Response("GET isbn", 404, "BOOK_NOT_FOUND")
    /\ UNCHANGED <<users, books, session, now, ticks, crashed>>

(***************************************************************************)
(* Search by author and by title                                           *)
(***************************************************************************)
\* The characters of the author and title strings of the seed.
Chars(str) ==
    CASE str = "Chinua Achebe" ->
             <<"C", "h", "i", "n", "u", "a", " ", "A", "c", "h", "e", "b",
               "e">>
      [] str = "Things Fall Apart" ->
             <<"T", "h", "i", "n", "g", "s", " ", "F", "a", "l", "l", " ",
               "A", "p", "a", "r", "t">>
      [] str = "Hans Christian Andersen" ->
             <<"H", "a", "n", "s", " ", "C", "h", "r", "i", "s", "t", "i",
               "a", "n", " ", "A", "n", "d", "e", "r", "s", "e", "n">>
      [] str = "Fairy tales" ->
             <<"F", "a", "i", "r", "y", " ", "t", "a", "l", "e", "s">>
      [] str = "Dante Alighieri" ->
             <<"D", "a", "n", "t", "e", " ", "A", "l", "i", "g", "h", "i",
               "e", "r", "i">>
      [] str = "The Divine Comedy" ->
             <<"T", "h", "e", " ", "D", "i", "v", "i", "n", "e", " ", "C",
               "o", "m", "e", "d", "y">>
      [] str = "Unknown" ->
             <<"U", "n", "k", "n", "o", "w", "n">>
      [] str = "The Epic Of Gilgamesh" ->
             <<"T", "h", "e", " ", "E", "p", "i", "c", " ", "O", "f", " ",
               "G", "i", "l", "g", "a", "m", "e", "s", "h">>
      [] str = "The Book Of Job" ->
             <<"T", "h", "e", " ", "B", "o", "o", "k", " ", "O", "f", " ",
               "J", "o", "b">>
      [] str = "One Thousand and One Nights" ->
             <<"O", "n", "e", " ", "T", "h", "o", "u", "s", "a", "n", "d",
               " ", "a", "n", "d", " ", "O", "n", "e", " ", "N", "i", "g",
               "h", "t", "s">>
      [] str = "Njál's Saga" ->
             <<"N", "j", "á", "l", "'", "s", " ", "S", "a", "g", "a">>
      [] str = "Jane Austen" ->
             <<"J", "a", "n", "e", " ", "A", "u", "s", "t", "e", "n">>
      [] str = "Pride and Prejudice" ->
             <<"P", "r", "i", "d", "e", " ", "a", "n", "d", " ", "P", "r",
               "e", "j", "u", "d", "i", "c", "e">>
      [] str = "Honoré de Balzac" ->
             <<"H", "o", "n", "o", "r", "é", " ", "d", "e", " ", "B", "a",
               "l", "z", "a", "c">>
      [] str = "Le Père Goriot" ->
             <<"L", "e", " ", "P", "è", "r", "e", " ", "G", "o", "r", "i",
               "o", "t">>
      [] str = "Samuel Beckett" ->
             <<"S", "a", "m", "u", "e", "l", " ", "B", "e", "c", "k", "e",
               "t", "t">>
      [] str = "Molloy, Malone Dies, The Unnamable, the trilogy" ->
             <<"M", "o", "l", "l", "o", "y", ",", " ", "M", "a", "l", "o",
               "n", "e", " ", "D", "i", "e", "s", ",", " ", "T", "h", "e",
               " ", "U", "n", "n", "a", "m", "a", "b", "l", "e", ",", " ",
               "t", "h", "e", " ", "t", "r", "i", "l", "o", "g", "y">>

UpperCase ==
    <<"A", "B", "C", "D", "E", "F", "G", "H", "I", "J", "K", "L", "M",
      "N", "O", "P", "Q", "R", "S", "T", "U", "V", "W", "X", "Y", "Z">>

LowerCase ==
    <<"a", "b", "c", "d", "e", "f", "g", "h", "i", "j", "k", "l", "m",
      "n", "o", "p", "q", "r", "s", "t", "u", "v", "w", "x", "y", "z">>

\* String.prototype.toLowerCase, one character at a time: the Latin capitals
\* of the seed and of the search terms; every other character stays.
LowerChar(ch) ==
    IF \E k \in 1..Len(UpperCase) : UpperCase[k] = ch
    THEN LowerCase[CHOOSE k \in 1..Len(UpperCase) : UpperCase[k] = ch]
    ELSE ch

\* A lowering that keeps capitals.
toLowerCase_Keep(s) == s

toLowerCase(s) == [k \in 1..Len(s) |-> LowerChar(s[k])]

\* booksdb.searchByAuthor: the books whose author holds the term, both lowered
searchByAuthor(author) ==
    LET hits == {i \in DOMAIN books :
                    Includes(toLowerCase(Chars(books[i].author)),
                             toLowerCase(author))}
    IN [i \in hits |-> books[i]]

\* booksdb.searchByTitle: the same on the title
searchByTitle(title) ==
    LET hits == {i \in DOMAIN books :
                    Includes(toLowerCase(Chars(books[i].title)),
                             toLowerCase(title))}
    IN [i \in hits |-> books[i]]

\* A pending search: the route parameter as sent and the trimmed term.
SearchCall(op, param, term) ==
    [op |-> op, client |-> NoClient, param |-> param, term |-> term]

\* GET /author/:author, up to the call of booksdb.searchByAuthor
SearchAuthor(author) ==
    /\ ~crashed
    /\ IF author = <<>> \/ Trim(author) = <<>>
       THEN /\ resp' = Response("GET author", 400, "MISSING_AUTHOR")
            /\ timers' = timers
       ELSE /\ ~Busy(NoClient)
            /\ timers' = Append(timers,
                    SearchCall("searchByAuthor", author, Trim(author)))
            /\ resp' = resp
    /\ UNCHANGED <<users, books, session, now, ticks, crashed>>

\* GET /title/:title, up to the call of booksdb.searchByTitle
SearchTitle(title) ==
    /\ ~crashed
    /\ IF title = <<>> \/ Trim(title) = <<>>
       THEN /\ resp' = Response("GET title", 400, "MISSING_TITLE")
            /\ timers' = timers
       ELSE /\ ~Busy(NoClient)
            /\ timers' = Append(timers,
                    SearchCall("searchByTitle", title, Trim(title)))
            /\ resp' = resp
    /\ UNCHANGED <<users, books, session, now, ticks, crashed>>

\* searchByAuthor callback, then the rest of GET /author/:author
FireSearchByAuthor ==
    /\ ~crashed
    /\ timers # <<>>
    /\ Head(timers).op = "searchByAuthor"
    /\ timers' = Tail(timers)
    /\ LET matchingBooks == searchByAuthor(Head(timers).term) IN
       IF DOMAIN matchingBooks = {}
       THEN resp' = Response("GET author", 404, "NO_BOOKS_FOUND")
       ELSE resp' = [Response("GET author", 200, "") EXCEPT
                        !.data = matchingBooks]
    /\ UNCHANGED <<users, books, session, now, ticks, crashed>>

\* searchByTitle callback, then the rest of GET /title/:title
FireSearchByTitle ==
    /\ ~crashed
    /\ timers # <<>>
    /\ Head(timers).op = "searchByTitle"
    /\ timers' = Tail(timers)
    /\ LET matchingBooks == searchByTitle(Head(timers).term) IN
       IF DOMAIN matchingBooks = {}
       THEN resp' = Response("GET title", 404, "NO_BOOKS_FOUND")
       ELSE resp' = [Response("GET title", 200, "") EXCEPT
                        !.data = matchingBooks]
    /\ UNCHANGED <<users, books, session, now, ticks, crashed>>

(***************************************************************************)
(* The middleware chain of the app, in the order it is registered          *)
(***************************************************************************)
Chain ==
    <<"session", "authMiddleware", "customerRoutes", "generalRoutes",
      "errorHandler", "notFound", "appHealth">>

\* The layer ends the request with a response: the first three are mounted
\* under /customer, the error handler runs only on next(err), the 404 handler
\* answers whatever reaches it.
Answers(layer, path) ==
    CASE layer = "generalRoutes" -> path = "/health"
      [] layer = "notFound" -> TRUE
      [] layer = "appHealth" -> path = "/health"
      [] OTHER -> FALSE

\* The first layer of the chain that answers.
Dispatch(path) ==
    Chain[CHOOSE k \in 1..Len(Chain) :
             /\ Answers(Chain[k], path)
             /\ \A j \in 1..(k - 1) : ~Answers(Chain[j], path)]

\* The fields of the body each /health handler sends.
HealthBody(layer) ==
    IF layer = "appHealth"
    THEN {"success", "message", "timestamp", "uptime"}
    ELSE {"success", "message", "timestamp", "service", "version"}

\* A GET of a path outside /customer that no store serves
PlainGet(path) ==
    /\ ~crashed
    /\ LET layer == Dispatch(path) IN
       IF layer = "notFound"
       THEN resp' = Response(path, 404, "")
       ELSE resp' = [Response(path, 200, "") EXCEPT
                        !.data = HealthBody(layer)]
    /\ UNCHANGED <<users, books, session, now, ticks, timers, crashed>>

(***************************************************************************)
(* Specification                                                           *)
(***************************************************************************)
\* Review traffic of two clients and two users: writes on a seeded ISBN,
\* deletes on a seeded and an unseeded one.
Next ==
    \/ \E u \in {alice, bob} : Register(u, secret)
    \/ \E c \in Clients, u \in {alice, bob} : Login(c, u, secret)
    \/ \E c \in Clients, r \in {good, padded} : PutReview(c, isbn1, r)
    \/ \E c \in Clients, i \in {isbn1, isbn999} : DeleteReview(c, i)
    \/ FireAddReview
    \/ FireDeleteReview

Spec == Init /\ [][Next]_vars

\* One client, a user whose name is also a property every object inherits,
\* and ISBN strings that are such names.
NextProto ==
    \/ \E u \in {alice, proto} : Register(u, secret)
    \/ \E u \in {alice, proto} : Login("c1", u, secret)
    \/ \E i \in IsbnInputs, r \in ReviewInputs : PutReview("c1", i, r)
    \/ \E i \in IsbnInputs : DeleteReview("c1", i)
    \/ \E i \in IsbnInputs \cup {blank} : GetReviews(i)
    \/ \E i \in IsbnInputs \cup {blank} : GetBook(i)
    \/ FireAddReview
    \/ FireDeleteReview
    \/ FireGetReviews
    \/ FireGetBookByISBN

SpecProto == Init /\ [][NextProto]_vars

\* The gate under a moving clock: logins, token expiry, cookie expiry.
GateClients == {"c1"}
GateUsers == {alice, bob}
GateReviews == {good}

NextGate ==
    \/ \E d \in Jumps : Tick(d)
    \/ \E u \in GateUsers : Register(u, secret)
    \/ \E c \in GateClients, u \in GateUsers : Login(c, u, secret)
    \/ \E c \in GateClients : ExpireSession(c)
    \/ \E c \in GateClients, r \in GateReviews : PutReview(c, isbn1, r)
    \/ \E c \in GateClients : DeleteReview(c, isbn1)
    \/ \E c \in GateClients : Profile(c)
    \/ FireAddReview
    \/ FireDeleteReview

SpecGate == Init /\ [][NextGate]_vars

\* The user store under every kind of registration input.
NextUsers ==
    \/ Tick(1000)
    \/ \E b \in RegisterInputs : Register(b[1], b[2])
    \/ \E b \in LoginInputs : Login("c1", b[1], b[2])
    \/ PutReview("c1", isbn1, good)
    \/ FireAddReview

SpecUsers == Init /\ [][NextUsers]_vars

\* The public routes: searches of the catalog while a review is being written,
\* and the health check.
NextSearch ==
    \/ Register(alice, secret)
    \/ Login("c1", alice, secret)
    \/ PutReview("c1", isbn1, good)
    \/ FireAddReview
    \/ \E a \in SearchInputs : SearchAuthor(a)
    \/ \E a \in SearchInputs : SearchTitle(a)
    \/ FireSearchByAuthor
    \/ FireSearchByTitle
    \/ \E path \in {"/health", "/nowhere"} : PlainGet(path)

SpecSearch == Init /\ [][NextSearch]_vars

\* Registrations at the edges of the username and password rules.
NextRegister ==
    \/ \E u \in EdgeUsernames, p \in EdgePasswords : Register(u, p)
    \/ \E u \in {bob, name30}, p \in {secret, pw100, pwNumber} :
          Login("c1", u, p)

SpecRegister == Init /\ [][NextRegister]_vars

(***************************************************************************)
(* Claims                                                                  *)
(***************************************************************************)
\* A request of client c to a path under /customer/auth/, over the inputs of
\* SpecGate.
GatedRequest(c) ==
    \/ \E r \in GateReviews : PutReview(c, isbn1, r)
    \/ DeleteReview(c, isbn1)
    \/ Profile(c)

\* The client's session holds an authorization entry (its cookie is alive).
HasEntry(c) == session[c].present /\ now < session[c].cookieExpires

\* The gate answered with the given status and error and nothing else happened.
Refused(status, error) ==
    /\ resp'.status = status
    /\ resp'.error = error
    /\ UNCHANGED <<users, books, session, timers, crashed>>

\* The request went past the gate: the handler queued its store call or
\* answered itself.
Forwarded ==
    \/ Len(timers') = Len(timers) + 1
    \/ resp'.status \in {200, 400}

\* C1: every request under /customer/auth/ is answered 401 "No active session"
\* when the session holds no authorization entry, 403 when the entry's token
\* fails verification ("Token expired" on expiry, "Invalid token" otherwise),
\* and reaches the handler only when the token verifies; a refused request
\* runs no handler and changes neither store.
C1_GateOutcome ==
    [][\A c \in GateClients :
          GatedRequest(c) =>
             IF ~HasEntry(c)
             THEN Refused(401, "No active session")
             ELSE LET token == session[c].authorization.accessToken IN
                  IF token.secret # JWT_SECRET
                  THEN Refused(403, "Invalid token")
                  ELSE IF now \div 1000 >= token.exp
                  THEN Refused(403, "Token expired")
                  ELSE Forwarded /\ ~Refused(401, "No active session")
                                 /\ ~Refused(403, "Token expired")]_vars

\* C1 witness: a gated request was answered 401 for a session whose cookie
\* lifetime has passed, after a review had been written.
C1_Witness ==
    /\ resp.status = 401
    /\ resp.error = "No active session"
    /\ session["c1"].present
    /\ now >= session["c1"].cookieExpires
    /\ books[isbn1].reviews # EmptyMap

\* One hour in milliseconds.
OneHourMs == 60 * 60 * 1000

\* The request went past the gate and was not refused.
Accepted ==
    /\ Forwarded
    /\ ~Refused(401, "No active session")
    /\ ~Refused(403, "Token expired")
    /\ ~Refused(403, "Invalid token")

\* C2 as stated: with t the time of the login that wrote the session entry,
\* every gated request made before t + 1h is accepted and every one made after
\* t + 1h is refused with 403 "Token expired".
C2_Original ==
    [][\A c \in GateClients :
          (GatedRequest(c) /\ HasEntry(c)) =>
             (LET t == session[c].authorization.loggedInAt IN
              /\ (now < t + OneHourMs) => Accepted
              /\ (now > t + OneHourMs) => Refused(403, "Token expired"))]_vars

\* C2 as amended: the token of a login at time t expires at the whole second
\* of t plus one hour; a gated request is accepted while the clock's whole
\* second is below that and refused with 403 "Token expired" from then on,
\* the session entry (cookie lifetime 24h from the login) still being present,
\* until a new login replaces the token.
C2_TokenExpiry ==
    [][\A c \in GateClients :
          /\ ( /\ resp'.status = 200
               /\ (\E u \in GateUsers : Login(c, u, secret)) )
             => ( /\ session'[c].authorization.loggedInAt = now
                  /\ session'[c].authorization.accessToken.exp =
                        (now \div 1000) + 3600
                  /\ session'[c].cookieExpires = now + 24 * OneHourMs )
          /\ (GatedRequest(c) /\ HasEntry(c)) =>
                (LET t == session[c].authorization.loggedInAt IN
                 IF now \div 1000 < (t \div 1000) + 3600
                 THEN Accepted
                 ELSE Refused(403, "Token expired"))]_vars

\* C2 witness: a gated request was refused with 403 "Token expired" while the
\* session entry of the login is still present.
C2_Witness ==
    /\ resp.status = 403
    /\ resp.error = "Token expired"
    /\ HasEntry("c1")
    /\ Sec(now) >= Sec(session["c1"].authorization.loggedInAt) + TokenLifetime

\* No two records of the user store have the same username.
UniqueUsernames ==
    \A j, k \in 1..Len(users) : users[j].username = users[k].username => j = k

\* C3: registering an unused username accepted by the username rule with a
\* password accepted by the password rule is answered 201; authenticate(u, p)
\* is true right after it and stays true whatever follows, and
\* authenticate(u, q) is false for every other password q.
C3_RegisterThenAuthenticate ==
    /\ [](\A u \in UsernameInputs, p \in PasswordInputs :
             authenticateUser(u, p) =>
                (\A q \in PasswordInputs \ {p} : ~authenticateUser(u, q)))
    /\ [][\* a step that leaves the user store alone and is no registration
          \* satisfies both conjuncts below
          (users' # users \/ resp'.route = "POST /register") =>
          \A u \in UsernameInputs, p \in PasswordInputs :
             /\ ( /\ <<u, p>> \in RegisterInputs
                  /\ resp'.route = "POST /register"
                  /\ Len(u) \in 3..30
                  /\ (\A k \in 1..Len(u) : u[k] \in UsernameChars)
                  /\ Len(p) \in 6..100
                  /\ (\A k \in 1..Len(users) : users[k].username # u)
                  /\ Register(u, p) )
                => (resp'.status = 201 /\ authenticateUser(u, p)')
             /\ authenticateUser(u, p) => authenticateUser(u, p)']_vars

\* C3 witness: two users are registered with different passwords, each
\* authenticates with its own password only, and a login and a review write
\* have followed the registrations.
C3_Witness ==
    /\ authenticateUser(alice, secret) /\ ~authenticateUser(alice, hunter2)
    /\ authenticateUser(aliceUpper, hunter2)
    /\ ~authenticateUser(aliceUpper, secret)
    /\ session["c1"].present
    /\ books[isbn1].reviews # EmptyMap

\* C4 as stated: usernames are unique, and every registration whose username
\* is already present is answered 409 and leaves the user store unchanged.
C4_Original ==
    [][/\ UniqueUsernames'
       /\ resp'.route = "POST /register" =>
          \A u \in UsernameInputs, p \in PasswordInputs :
             ( /\ <<u, p>> \in RegisterInputs
               /\ (\E k \in 1..Len(users) : users[k].username = u)
               /\ Register(u, p) )
             => (resp'.status = 409 /\ users' = users)]_vars

\* C4 as amended: usernames are unique; a registration whose username is
\* already present is answered 409 when its password is accepted by the
\* password rule and 400 when the password is missing or rejected, and in both
\* cases it leaves the user store unchanged.
C4_UniqueUsernames ==
    [][/\ UniqueUsernames'
       /\ resp'.route = "POST /register" =>
          \A u \in UsernameInputs, p \in PasswordInputs :
             ( /\ <<u, p>> \in RegisterInputs
               /\ (\E k \in 1..Len(users) : users[k].username = u)
               /\ Register(u, p) )
             => ( /\ users' = users
                  /\ resp'.status =
                        IF Len(p) \in 6..100 THEN 409 ELSE 400 )]_vars

\* C4 witness: a registration was answered 409 at a later time than the first
\* registration of that name, while the store holds two names that differ in
\* case only.
C4_Witness ==
    /\ resp.route = "POST /register"
    /\ resp.status = 409
    /\ Len(users) = 2
    /\ {users[1].username, users[2].username} = {alice, aliceUpper}
    /\ now > users[2].registeredAt

\* C5: after upsertReview(i, u, t) on a seeded ISBN, listReviews(i) maps u to
\* t (a second upsert overwrites that one entry), and the entries of the other
\* users are the same as before.
C5_UpsertThenList ==
    [][(FireAddReview /\ Head(timers).isbn \in SeededIsbns) =>
          (LET t == Head(timers)
               before == books[t.isbn].reviews
               after == books'[t.isbn].reviews
           IN /\ t.username \in DOMAIN after
              /\ after[t.username] = t.review
              /\ DOMAIN after \ {t.username} = DOMAIN before \ {t.username})]_vars

\* C6: deleteReview(i, u) on a seeded ISBN fails with the review-not-found
\* error and leaves the book store unchanged when u has no review on i, and
\* removes exactly u's entry and succeeds when u has one.
C6_DeleteWithoutReview ==
    [][(FireDeleteReview /\ Head(timers).isbn \in SeededIsbns) =>
          (LET t == Head(timers)
               before == books[t.isbn].reviews
           IN IF t.username \notin DOMAIN before
              THEN /\ resp'.status # 200
                   /\ resp'.error = "REVIEW_NOT_FOUND"
                   /\ books' = books
              ELSE /\ resp'.status = 200
                   /\ books'[t.isbn].reviews =
                         [u \in DOMAIN before \ {t.username} |-> before[u]])]_vars

\* C7: an authenticated DELETE is answered 404 when the ISBN is not in the
\* catalog and also when the acting user has no review on the book.
C7_DeleteFailures404 ==
    [][FireDeleteReview =>
          (LET t == Head(timers) IN
           (\/ t.isbn \notin SeededIsbns
            \/ t.username \notin DOMAIN books[t.isbn].reviews)
           => (resp'.route = "DELETE review" /\ resp'.status = 404))]_vars

\* C8: a successful PUT reports "added" when the acting user had no review on
\* the book before and "updated" when it overwrote one.
C8_AddedOrUpdated ==
    [][(FireAddReview /\ Head(timers).isbn \in SeededIsbns) =>
          (LET t == Head(timers) IN
           /\ resp'.status = 200
           /\ resp'.action =
                 IF t.username \in DOMAIN books[t.isbn].reviews
                 THEN "updated" ELSE "added")]_vars

\* C9: no request is fatal to the process: no error thrown inside a deferred
\* store callback escapes unhandled.
C9_NoFatalRequest == crashed = FALSE

\* C10: a store call carries the username of the last successful login of the
\* client that sent it, a session entry is written by a successful login only,
\* and a write or delete changes at most the entry of that username on the
\* addressed book: every other entry and every other book stays as it was.
C10_OwnerOnly ==
    [][/\ Len(timers') = Len(timers) + 1 =>
             (LET call == timers'[Len(timers')] IN
              /\ call.client \in Clients
              /\ HasEntry(call.client)
              /\ call.username = session[call.client].authorization.username)
       /\ \A c \in Clients :
             session'[c] # session[c] =>
                (\E u \in {alice, bob} :
                    /\ Login(c, u, secret)
                    /\ resp'.status = 200
                    /\ \E k \in 1..Len(users) :
                          users[k].username = u /\ users[k].password = secret
                    /\ session'[c].authorization.username = u)
       /\ books' # books =>
             (LET t == Head(timers)
                  before == books[t.isbn].reviews
                  after == books'[t.isbn].reviews
              IN /\ FireAddReview \/ FireDeleteReview
                 /\ t.isbn \in SeededIsbns
                 /\ DOMAIN books' = DOMAIN books
                 /\ \A i \in DOMAIN books \ {t.isbn} : books'[i] = books[i]
                 /\ books' = [books EXCEPT ![t.isbn].reviews = after]
                 /\ DOMAIN after \ {t.username} = DOMAIN before \ {t.username}
                 /\ \A u \in DOMAIN before \ {t.username} :
                       after[u] = before[u])]_vars

\* C10 witness: two clients are logged in as different users, both wrote a
\* review on book 1, and the delete of one of them left the other's in place.
C10_Witness ==
    /\ resp.route = "DELETE review"
    /\ resp.status = 200
    /\ session["c1"].present /\ session["c2"].present
    /\ session["c1"].authorization.username = alice
    /\ session["c2"].authorization.username = bob
    /\ DOMAIN books[isbn1].reviews = {bob}
    /\ books[isbn1].reviews[bob] = Trim(padded)

\* C11: in every reachable state the catalog holds exactly the ten seeded
\* ISBNs, and the author, title, genre, year and rating of each book are the
\* seeded ones: only a reviews map differs from the seed.
C11_CatalogFixed ==
    /\ DOMAIN books = SeededIsbns
    /\ \A i \in SeededIsbns :
          [books[i] EXCEPT !.reviews = EmptyMap] = SeedBooks[i]

\* C11 witness: a review was written on book 1 and a read of its reviews was
\* answered with the non-empty map.
C11_Witness ==
    /\ books[isbn1].reviews # EmptyMap
    /\ resp.route = "GET review"
    /\ resp.status = 200
    /\ resp.data = books[isbn1].reviews

\* C12: an authenticated PUT whose review text is missing, empty, blank or
\* longer than 1000 characters is answered 400 without a store call, whatever
\* the ISBN; one with an accepted text and an ISBN that is not in the catalog
\* is answered 404; in both cases the book store is unchanged.
C12_PutFailures ==
    [][/\ \A i \in IsbnInputs, r \in ReviewInputs :
             (/\ PutReview("c1", i, r)
              /\ GateStatus(LoadSession("c1")) = 0
              /\ (r = <<>> \/ Trim(r) = <<>> \/ Len(r) > 1000))
             => (/\ resp'.route = "PUT review"
                 /\ resp'.status = 400
                 /\ timers' = timers
                 /\ books' = books)
       /\ (FireAddReview /\ Head(timers).isbn \notin SeededIsbns)
             => (/\ resp'.route = "PUT review"
                 /\ resp'.status = 404
                 /\ books' = books)]_vars

\* C13: a login with a missing field or a username of the wrong shape is
\* answered 400, one that matches no stored record on both fields 401, and
\* both leave the session exactly as it was; a login that matches is answered
\* 200 and writes {token, username, login time}; the session changes in no
\* other way.
C13_LoginOutcome ==
    [][/\ \A b \in LoginInputs :
             Login("c1", b[1], b[2]) =>
                (IF b[1] = <<>> \/ b[2] = <<>> \/ ~isValidUsername(b[1])
                 THEN resp'.status = 400 /\ session' = session
                 ELSE IF ~(\E k \in 1..Len(users) :
                              /\ users[k].username = b[1]
                              /\ users[k].password = b[2])
                 THEN resp'.status = 401 /\ session' = session
                 ELSE /\ resp'.status = 200
                      /\ session'["c1"].present
                      /\ session'["c1"].authorization.username = b[1]
                      /\ session'["c1"].authorization.accessToken.username = b[1]
                      /\ session'["c1"].authorization.loggedInAt = now)
       /\ (session' # session) =>
             (resp'.route = "POST /customer/login" /\ resp'.status = 200)]_vars

\* C13 witness: a client logged in as alice, then sent a login that was
\* refused 401; the entry of the earlier login is still in the session.
C13_Witness ==
    /\ resp.route = "POST /customer/login"
    /\ resp.status = 401
    /\ session["c1"].present
    /\ session["c1"].authorization.username = alice
    /\ session["c1"].authorization.loggedInAt < now

\* C14: GET /isbn/:isbn is answered 200 with the book when the ISBN string is
\* a seeded key (ISBN 1: "Things Fall Apart") and 404 book-not-found when it
\* is any other string that reaches the store, and GET /review/:isbn is
\* answered 200 with the reviews map or 404 on the same split.
C14_ExactKeyLookup ==
    [][/\ FireGetBookByISBN =>
             (LET t == Head(timers) IN
              IF t.isbn \in SeededIsbns
              THEN /\ resp'.status = 200
                   /\ resp'.data = books[t.isbn]
                   /\ (t.isbn = isbn1 => resp'.data.title = "Things Fall Apart")
              ELSE resp'.status = 404 /\ resp'.error = "BOOK_NOT_FOUND")
       /\ FireGetReviews =>
             (LET t == Head(timers) IN
              IF t.isbn \in SeededIsbns
              THEN resp'.status = 200 /\ resp'.data = books[t.isbn].reviews
              ELSE resp'.status = 404 /\ resp'.error = "BOOK_NOT_FOUND")]_vars

\* text holds s at some offset when capitals and small letters are taken as
\* the same.
Matches(text, s) ==
    \E k \in 0..(Len(text) - Len(s)) :
       \A j \in 1..Len(s) : LowerChar(text[k + j]) = LowerChar(s[j])

AuthorMatches(s) ==
    {i \in SeededIsbns : Matches(Chars(SeedBooks[i].author), s)}

TitleMatches(s) ==
    {i \in SeededIsbns : Matches(Chars(SeedBooks[i].title), s)}

\* What a search handler answers for the mapping m the store returned.
SearchAnswer(m) ==
    IF DOMAIN m = {}
    THEN resp'.status = 404 /\ resp'.error = "NO_BOOKS_FOUND"
    ELSE resp'.status = 200 /\ resp'.data = m

\* C15 as stated: the handlers answer every search with 404 or 200, decided
\* by the mapping the store returns for the route parameter as it was sent.
C15_Original ==
    [][/\ FireSearchByAuthor =>
             SearchAnswer([i \in AuthorMatches(Head(timers).param) |-> books[i]])
       /\ FireSearchByTitle =>
             SearchAnswer([i \in TitleMatches(Head(timers).param) |-> books[i]])
       /\ (\E s \in SearchInputs : SearchAuthor(s) \/ SearchTitle(s))
             => resp' = resp]_vars

\* C15: a search whose parameter is blank is answered 400 without a store
\* call; any other is run on the trimmed parameter: the store returns exactly
\* the books whose author (title) holds the term, letter case aside, as they
\* are in the catalog, never an error, and the handler answers 404 when that
\* mapping is empty and 200 with it otherwise.  "achebe" finds exactly ISBN 1.
C15_Search ==
    [][/\ FireSearchByAuthor =>
             (LET t == Head(timers)
                  m == searchByAuthor(t.term)
              IN /\ t.term = Trim(t.param)
                 /\ DOMAIN m = AuthorMatches(t.term)
                 /\ \A i \in DOMAIN m : m[i] = books[i]
                 /\ SearchAnswer(m)
                 /\ (t.term = achebe => DOMAIN m = {isbn1})
                 /\ crashed' = FALSE)
       /\ FireSearchByTitle =>
             (LET t == Head(timers)
                  m == searchByTitle(t.term)
              IN /\ t.term = Trim(t.param)
                 /\ DOMAIN m = TitleMatches(t.term)
                 /\ \A i \in DOMAIN m : m[i] = books[i]
                 /\ SearchAnswer(m)
                 /\ crashed' = FALSE)
       /\ \A s \in SearchInputs :
             ((SearchAuthor(s) \/ SearchTitle(s)) /\ Trim(s) = <<>>)
             => (resp'.status = 400 /\ timers' = timers)
       /\ \A s \in SearchInputs :
             ((SearchAuthor(s) \/ SearchTitle(s)) /\ Trim(s) # <<>>)
             => (resp' = resp /\ Len(timers') = Len(timers) + 1)]_vars

\* C15 witness: a search for "achebe" sent with a trailing blank was answered
\* 200 with exactly book 1, carrying the review written on it meanwhile.
C15_Witness ==
    /\ resp.route = "GET author"
    /\ resp.status = 200
    /\ DOMAIN resp.data = {isbn1}
    /\ resp.data[isbn1].reviews # EmptyMap

\* C16: GET /health without a session is answered 200 with a body that
\* carries both the process uptime and a timestamp.
C16_HealthUptime ==
    [][PlainGet("/health") =>
          (/\ resp'.status = 200
           /\ {"uptime", "timestamp"} \subseteq resp'.data)]_vars

\* C17: a registration is accepted exactly when the username is 3 to 30
\* characters out of letters, digits and underscore and the password has a
\* length L with 6 <= L <= 100: a request with a missing field, a rejected
\* username or a rejected password is answered 400 and leaves the user store
\* unchanged; an accepted one for an unused username is answered 201 and
\* appends exactly one record.
C17_RegisterRule ==
    [][\A u \in EdgeUsernames, p \in EdgePasswords :
          Register(u, p) =>
             (LET nameOk == /\ Len(u) >= 3
                            /\ Len(u) <= 30
                            /\ \A k \in 1..Len(u) : u[k] \in UsernameChars
                  passwordOk == /\ IsString(p)
                                /\ Len(p) >= 6
                                /\ Len(p) <= 100
                  unused == \A k \in 1..Len(users) : users[k].username # u
              IN IF u = <<>> \/ p = <<>> \/ ~nameOk \/ ~passwordOk
                 THEN resp'.status = 400 /\ users' = users
                 ELSE unused =>
                         (/\ resp'.status = 201
                          /\ Len(users') = Len(users) + 1
                          /\ SubSeq(users', 1, Len(users)) = users
                          /\ users'[Len(users')].username = u
                          /\ users'[Len(users')].password = p))]_vars

\* One store operation applied on its own to a reviews map.
ApplyOne(map, call) ==
    IF call.op = "addReview"
    THEN [x \in DOMAIN map \cup {call.username} |->
             IF x = call.username THEN call.review ELSE map[x]]
    ELSE [x \in DOMAIN map \ {call.username} |-> map[x]]

\* C18: store calls in flight together lose no update: each callback applies
\* its own operation to the reviews map as the callbacks before it left it,
\* and leaves the calls behind it pending in their order, so two PUTs of
\* different users on one book leave both reviews stored; registrations run
\* one at a time, so of two for the same new username one appends a record
\* and the other is answered 409.
C18_NoLostUpdate ==
    [][/\ (FireAddReview \/ FireDeleteReview) =>
             (LET call == Head(timers) IN
              /\ timers' = Tail(timers)
              /\ call.isbn \in SeededIsbns =>
                    /\ books'[call.isbn].reviews =
                          ApplyOne(books[call.isbn].reviews, call)
                    /\ \A i \in SeededIsbns \ {call.isbn} :
                          books'[i] = books[i])
       /\ \A u \in {alice, bob} :
             Register(u, secret) =>
                (IF \E k \in 1..Len(users) : users[k].username = u
                 THEN resp'.status = 409 /\ users' = users
                 ELSE /\ resp'.status = 201
                      /\ Len(users') = Len(users) + 1
                      /\ Cardinality({k \in 1..Len(users') :
                                         users'[k].username = u}) = 1)]_vars

\* C18 witness: a PUT of alice and a PUT of bob on book 1 were in flight
\* together, alice's callback has run and bob's is still pending behind it.
C18_Witness ==
    /\ Len(timers) = 1
    /\ timers[1].op = "addReview"
    /\ timers[1].isbn = isbn1
    /\ timers[1].username = bob
    /\ resp.route = "PUT review"
    /\ resp.status = 200
    /\ DOMAIN books[isbn1].reviews = {alice}
    /\ session["c1"].present /\ session["c2"].present
    /\ session["c1"].authorization.username = alice
    /\ session["c2"].authorization.username = bob

\* C19: a PUT (i, u, t) on a seeded ISBN is answered 200 and leaves a book
\* store on which the same PUT changes nothing: when the store already holds
\* what the first PUT (i, u, t) left, the second leaves it exactly as it is.
C19_UpsertIdempotent ==
    [][(FireAddReview /\ Head(timers).isbn \in SeededIsbns) =>
          (LET call == Head(timers) IN
           /\ resp'.route = "PUT review"
           /\ resp'.status = 200
           /\ addReview(books', call.isbn, call.username, call.review) = books'
           /\ (/\ call.username \in DOMAIN books[call.isbn].reviews
               /\ books[call.isbn].reviews[call.username] = call.review)
              => books' = books)]_vars

\* C19 witness: alice's PUT of "Good" on book 1 was applied and answered 200,
\* and the same PUT is in flight again.
C19_Witness ==
    /\ resp.route = "PUT review"
    /\ resp.status = 200
    /\ alice \in DOMAIN books[isbn1].reviews
    /\ books[isbn1].reviews[alice] = good
    /\ Len(timers) = 1
    /\ timers[1] = StoreCall("addReview", "c1", isbn1, alice, good)

\* C20: in every reachable state the username of a session's authorization
\* entry is the username claim of the entry's token and names a record of
\* the user store; and a profile request that passes the gate is answered
\* with the registeredAt of that record, never "Unknown".
C20_SessionIdentity ==
    /\ [](\A c \in Clients :
             session[c].present =>
                (/\ session[c].authorization.username =
                       session[c].authorization.accessToken.username
                 /\ \E k \in 1..Len(users) :
                       users[k].username = session[c].authorization.username))
    /\ [][\A c \in GateClients :
             (Profile(c) /\ GateStatus(LoadSession(c)) = 0) =>
                (/\ resp'.route = "GET profile"
                 /\ resp'.status = 200
                 /\ resp'.registeredAt # Unknown
                 /\ \E k \in 1..Len(users) :
                       /\ users[k].username = session[c].authorization.username
                       /\ users[k].registeredAt = resp'.registeredAt)]_vars

\* C20 witness: a user registered after the clock had moved, logged in, and
\* the profile request was answered with that registration time.
C20_Witness ==
    /\ resp.route = "GET profile"
    /\ resp.status = 200
    /\ resp.registeredAt > 0
    /\ session["c1"].present
    /\ \E k \in 1..Len(users) :
          /\ users[k].username = session["c1"].authorization.username
          /\ users[k].registeredAt = resp.registeredAt

\* Every stored review text is non-empty, starts and ends with a character
\* that is not blank, and is at most 1000 characters long.
StoredTextsClean ==
    \A i \in DOMAIN books :
       \A u \in DOMAIN books[i].reviews :
          LET text == books[i].reviews[u] IN
          /\ text # <<>>
          /\ text[1] # " "
          /\ text[Len(text)] # " "
          /\ Len(text) <= 1000

\* C21: in every reachable state every stored review text is non-empty,
\* without leading or trailing whitespace and at most 1000 characters long,
\* and deleteReview's presence test agrees with the presence of an entry
\* written by the user: a delete on a seeded ISBN succeeds exactly when the
\* reviews map holds an entry under the acting username.
C21_StoredTextAndPresence ==
    /\ []StoredTextsClean
    /\ [][(FireDeleteReview /\ Head(timers).isbn \in SeededIsbns) =>
             (LET call == Head(timers) IN
              (resp'.status = 200)
                 <=> (call.username \in DOMAIN books[call.isbn].reviews))]_vars

====
